---- MODULE Spec2Model ----
(***************************************************************************)
(* Model of taxi_booking_system.py: the Booking and Location records with  *)
(* their accessors, and the observer mechanism (ConcreteNotificationManager *)
(* with CustomerObserver, DriverObserver and OperatorObserver).             *)
(***************************************************************************)
EXTENDS Integers, Sequences, FiniteSets, TLC

(* ------------------------------ bounds --------------------------------- *)
MaxDrivers == 2
MaxCoord == 1
MaxObservers == 2
MaxPublish == 2

(* --------------------------- value domains ----------------------------- *)
\* Python's None, for driver_id and _state (both otherwise non-negative).
None == -1
\* Python's default argument () of the Location coordinates.
EmptyLatlng == <<>>

\* The status values a caller passes as book_status / new_book_status.
Statuses == {"Requested", "Assigned", "EnRoute", "Completed", "Cancelled"}
Active == {"Assigned", "EnRoute"}
Terminal == {"Completed", "Cancelled"}
Edges ==
    {<<"Requested", "Assigned">>, <<"Assigned", "EnRoute">>,
     <<"EnRoute", "Completed">>}
    \cup {<<s, "Cancelled">> : s \in {"Requested", "Assigned", "EnRoute"}}

Drivers == 1..MaxDrivers
Coords == {<<x, x>> : x \in 0..MaxCoord}

\* A name that no constructor has bound yet.
NoBooking == [constructed |-> FALSE, book_status |-> "Unset", driver_id |-> None]
NoLocation ==
    [constructed |-> FALSE, origin_latlng |-> EmptyLatlng,
     destination_latlng |-> EmptyLatlng, current_latlng |-> EmptyLatlng]

VARIABLES
    booking,      \* the Booking object (NoBooking before construction)
    location,     \* the Location object of that booking
    last,         \* the latest Booking/Location call and its outcome
    observers,    \* ConcreteNotificationManager._observers (class attribute)
    mstate,       \* _state of each ConcreteNotificationManager instance
    attached,     \* the managers whose attach has been called
    note,         \* the latest notification call and its outcome
    pc,           \* position of each publisher thread in update_information
    published,    \* number of writes to _state made by publisher threads
    stamp,        \* the write that produced the current _state
    recv          \* the last two writes the interface observer has read

bookVars == <<booking, location, last>>
noteVars == <<observers, mstate, attached, note>>
concVars == <<pc, published, stamp, recv>>
vars == <<booking, location, last, observers, mstate, attached, note,
          pc, published, stamp, recv>>

(* ------------------------- Booking and Location ------------------------ *)
NewBookingObject(book_status, driver_id) ==
    [constructed |-> TRUE, book_status |-> book_status, driver_id |-> driver_id]

set_book_status_checked(bk, new_book_status) ==
    IF <<bk.book_status, new_book_status>> \in Edges
    THEN [bk EXCEPT !.book_status = new_book_status]
    ELSE bk

set_book_status(bk, new_book_status) ==
    [bk EXCEPT !.book_status = new_book_status]

set_driver_id_assigning(bk, new_driver_id) ==
    [bk EXCEPT !.driver_id = new_driver_id, !.book_status = "Assigned"]

set_driver_id_once(bk, new_driver_id) ==
    IF bk.driver_id = None
    THEN [bk EXCEPT !.driver_id = new_driver_id]
    ELSE bk

set_driver_id(bk, new_driver_id) ==
    [bk EXCEPT !.driver_id = new_driver_id]

NewLocationObject(origin_latlng, destination_latlng, current_latlng) ==
    [constructed |-> TRUE, origin_latlng |-> origin_latlng,
     destination_latlng |-> destination_latlng,
     current_latlng |-> current_latlng]

set_current_latlng_guarded(loc, new_current_latlng) ==
    IF booking.constructed /\ booking.book_status \in Active
    THEN [loc EXCEPT !.current_latlng = new_current_latlng]
    ELSE loc

set_current_latlng(loc, new_current_latlng) ==
    [loc EXCEPT !.current_latlng = new_current_latlng]

get_current_latlng(loc) == loc.current_latlng
get_book_status(bk) == bk.book_status
get_driver_id(bk) == bk.driver_id

\* last: op and arg name the call; prev is the value the field it sets had
\* before; other is the value, before the call, of the object's other field
\* (status for a driver call, driver for a status call, origin for a
\* coordinate call); raised tells whether the call raised an exception.
NoCall ==
    [op |-> "none", arg |-> None, prev |-> None, other |-> None,
     raised |-> FALSE]

\* Booking(booking_id, book_status, customer_id, driver_id, ...)
BookingInit(book_status, driver_id) ==
    /\ ~booking.constructed
    /\ booking' = NewBookingObject(book_status, driver_id)
    /\ last' = [op |-> "Booking", arg |-> book_status, prev |-> None,
                other |-> driver_id, raised |-> FALSE]
    /\ UNCHANGED <<location, noteVars, concVars>>

\* Location(location_id, booking_id, origin, destination, current)
LocationInit(origin_latlng, destination_latlng, current_latlng) ==
    /\ ~location.constructed
    /\ location' =
         NewLocationObject(origin_latlng, destination_latlng, current_latlng)
    /\ last' = [op |-> "Location", arg |-> current_latlng, prev |-> None,
                other |-> origin_latlng, raised |-> FALSE]
    /\ UNCHANGED <<booking, noteVars, concVars>>

SetBookStatus(new_book_status) ==
    /\ booking.constructed
    /\ booking' = set_book_status(booking, new_book_status)
    /\ last' = [op |-> "set_book_status", arg |-> new_book_status,
                prev |-> booking.book_status, other |-> booking.driver_id,
                raised |-> FALSE]
    /\ UNCHANGED <<location, noteVars, concVars>>

SetDriverId(new_driver_id) ==
    /\ booking.constructed
    /\ booking' = set_driver_id(booking, new_driver_id)
    /\ last' = [op |-> "set_driver_id", arg |-> new_driver_id,
                prev |-> booking.driver_id, other |-> booking.book_status,
                raised |-> FALSE]
    /\ UNCHANGED <<location, noteVars, concVars>>

SetCurrentLatlng(new_current_latlng) ==
    /\ location.constructed
    /\ location' = set_current_latlng(location, new_current_latlng)
    /\ last' = [op |-> "set_current_latlng", arg |-> new_current_latlng,
                prev |-> location.current_latlng,
                other |-> location.origin_latlng, raised |-> FALSE]
    /\ UNCHANGED <<booking, noteVars, concVars>>

(* ------------------------- observer mechanism -------------------------- *)
\* randrange(0, 10) draws from 0..StateRange-1.
StateRange == 10
Managers == {"m1", "m2"}

\* One instance of each observer class of the file, and one instance of a
\* class that implements the Observer interface as declared: update(self).
ConcreteObservers == {"Customer", "Driver", "Operator"}
Observers == ConcreteObservers \cup {"Interface"}

\* self._observers of any instance is the one list of the class.
ObserversOf(m) == observers

Count(o, list) == Cardinality({i \in 1..Len(list) : list[i] = o})
Positions(o, list) == {i \in 1..Len(list) : list[i] = o}
Min(S) == CHOOSE i \in S : \A j \in S : i <= j

attach_once(list, observer) ==
    IF Count(observer, list) > 0 THEN list ELSE Append(list, observer)

\* self._observers.append(observer)
attach(list, observer) == Append(list, observer)

RemoveAt(list, k) == SubSeq(list, 1, k - 1) \o SubSeq(list, k + 1, Len(list))

RemoveAll(list, o) ==
    LET F[i \in 0..Len(list)] ==
            IF i = 0 THEN <<>>
            ELSE IF list[i] = o THEN F[i - 1] ELSE Append(F[i - 1], list[i])
    IN F[Len(list)]

detach_all(list, observer) ==
    [list |-> RemoveAll(list, observer), raised |-> FALSE]

\* self._observers.remove(observer): the first matching entry goes;
\* ValueError when there is none.
detach(list, observer) ==
    IF Count(observer, list) = 0
    THEN [list |-> list, raised |-> TRUE]
    ELSE [list |-> RemoveAt(list, Min(Positions(observer, list))),
          raised |-> FALSE]

\* observer.update() as notify calls it: the three observer classes of the
\* file declare update(self, notification_manager), so the call raises
\* TypeError; an update(self) of the interface returns.
update_call_raises(o) == o \in ConcreteObservers

notify_isolating(list) ==
    [called |-> list,
     delivered |-> RemoveAll(RemoveAll(RemoveAll(list, "Customer"), "Driver"),
                             "Operator"),
     raised |-> FALSE]

\* for observer in self._observers: observer.update()
\* called: the observers whose update was called, in order;
\* delivered: those whose update returned; raised: the loop was left by an
\* exception, which notify does not catch.
notify(list) ==
    LET failing == {i \in 1..Len(list) : update_call_raises(list[i])}
        k == IF failing = {} THEN Len(list) + 1 ELSE Min(failing)
    IN [called |-> SubSeq(list, 1, IF k > Len(list) THEN Len(list) ELSE k),
        delivered |-> SubSeq(list, 1, k - 1),
        raised |-> failing # {}]

CustomerObserver_update(s) == s < 3

DriverObserver_update_always(s) == TRUE

DriverObserver_update(s) == s = 0 \/ s >= 2

OperatorObserver_update(s) == s = 0 \/ s >= 2

\* observer.update(notification_manager) called with the manager: whether
\* the observer prints its reaction. Comparing a _state of None with an
\* integer raises TypeError; so does the extra argument to update(self).
update(o, s) ==
    IF o = "Interface" \/ s = None
    THEN [reacted |-> FALSE, raised |-> TRUE]
    ELSE [reacted |-> CASE o = "Customer" -> CustomerObserver_update(s)
                        [] o = "Driver" -> DriverObserver_update(s)
                        [] o = "Operator" -> OperatorObserver_update(s),
          raised |-> FALSE]

\* note: op, m and o name the call; before is the subscriber list before an
\* attach or detach; called, delivered, raised are the outcome of a notify;
\* reacted is the outcome of an update.
NoNote ==
    [op |-> "none", m |-> "m1", o |-> "Customer", before |-> <<>>,
     called |-> <<>>, delivered |-> <<>>, raised |-> FALSE, reacted |-> FALSE]

Attach(m, o) ==
    /\ Len(observers) < MaxObservers
    /\ observers' = attach(ObserversOf(m), o)
    /\ attached' = attached \cup {m}
    /\ note' = [NoNote EXCEPT !.op = "attach", !.m = m, !.o = o,
                              !.before = ObserversOf(m)]
    /\ UNCHANGED <<mstate, bookVars, concVars>>

Detach(m, o) ==
    LET r == detach(ObserversOf(m), o) IN
    /\ observers' = r.list
    /\ note' = [NoNote EXCEPT !.op = "detach", !.m = m, !.o = o,
                              !.before = ObserversOf(m),
                              !.raised = r.raised]
    /\ UNCHANGED <<mstate, attached, bookVars, concVars>>

Notify(m) ==
    LET r == notify(ObserversOf(m)) IN
    /\ note' = [NoNote EXCEPT !.op = "notify", !.m = m,
                              !.called = r.called,
                              !.delivered = r.delivered,
                              !.raised = r.raised]
    /\ UNCHANGED <<observers, mstate, attached, bookVars, concVars>>

\* self._state = randrange(0, 10); self.notify()
UpdateInformation(m) ==
    \E s \in 0..(StateRange - 1) :
        LET r == notify(ObserversOf(m)) IN
        /\ mstate' = [mstate EXCEPT ![m] = s]
        /\ note' = [NoNote EXCEPT !.op = "update_information", !.m = m,
                                  !.called = r.called,
                                  !.delivered = r.delivered,
                                  !.raised = r.raised]
        /\ UNCHANGED <<observers, attached, bookVars, concVars>>

\* observer.update(notification_manager), called by a caller directly
Update(o, m) ==
    LET r == update(o, mstate[m]) IN
    /\ note' = [NoNote EXCEPT !.op = "update", !.m = m, !.o = o,
                              !.raised = r.raised, !.reacted = r.reacted]
    /\ UNCHANGED <<observers, mstate, attached, bookVars, concVars>>

(* ------------------ update_information, step by step ------------------- *)
\* Two threads publishing on the manager m1. Nothing in the file makes
\* update_information atomic: the write of _state and every iteration of
\* the loop of notify are separate steps, and an attach may run between
\* them (the list iterator compares its index with the current length at
\* every step).
Publishers == {"t1", "t2"}
Idle == [at |-> "idle", i |-> 0, seq |-> 0]

\* What an update reads: the manager's _state at the time of the call
\* (identified by the write that produced it), since notify hands the
\* observer no event of its own.
event_captured(t) == pc[t].seq

event_read(t) == stamp

\* self._state = randrange(0, 10)
PublishWrite(t) ==
    /\ pc[t].at = "idle"
    /\ published < MaxPublish
    /\ \E s \in 0..(StateRange - 1) : mstate' = [mstate EXCEPT !["m1"] = s]
    /\ published' = published + 1
    /\ stamp' = published + 1
    /\ pc' = [pc EXCEPT ![t] = [at |-> "loop", i |-> 1, seq |-> published + 1]]
    /\ UNCHANGED <<observers, attached, note, recv, bookVars>>

\* one iteration of: for observer in self._observers: observer.update()
PublishDeliver(t) ==
    /\ pc[t].at = "loop"
    /\ IF pc[t].i > Len(ObserversOf("m1"))
       THEN /\ pc' = [pc EXCEPT ![t] = Idle]
            /\ UNCHANGED recv
       ELSE IF update_call_raises(ObserversOf("m1")[pc[t].i])
       THEN /\ pc' = [pc EXCEPT ![t] = Idle]
            /\ UNCHANGED recv
       ELSE /\ pc' = [pc EXCEPT ![t].i = pc[t].i + 1]
            /\ recv' = [prev |-> recv.cur, cur |-> event_read(t)]
    /\ UNCHANGED <<observers, mstate, attached, note, published, stamp,
                   bookVars>>

(* --------------------------- specifications ---------------------------- *)
Init ==
    /\ booking = NoBooking
    /\ location = NoLocation
    /\ last = NoCall
    /\ observers = <<>>
    /\ mstate = [m \in Managers |-> None]
    /\ attached = {}
    /\ note = NoNote
    /\ pc = [t \in Publishers |-> Idle]
    /\ published = 0
    /\ stamp = 0
    /\ recv = [prev |-> 0, cur |-> 0]

NextBooking ==
    \/ \E s \in Statuses, d \in Drivers \cup {None} : BookingInit(s, d)
    \/ \E o \in Coords, d \in Coords, c \in Coords \cup {EmptyLatlng} :
           LocationInit(o, d, c)
    \/ \E s \in Statuses : SetBookStatus(s)
    \/ \E d \in Drivers \cup {None} : SetDriverId(d)
    \/ \E c \in Coords : SetCurrentLatlng(c)

NextNotify ==
    \/ \E m \in Managers, o \in Observers : Attach(m, o)
    \/ \E m \in Managers, o \in Observers : Detach(m, o)
    \/ \E m \in Managers : Notify(m)

NextReact ==
    \/ \E o \in Observers : Attach("m1", o)
    \/ \E m \in Managers : UpdateInformation(m)
    \/ \E m \in Managers, o \in Observers : Update(o, m)

NextConc ==
    \/ \E o \in Observers : Attach("m1", o)
    \/ \E t \in Publishers : PublishWrite(t)
    \/ \E t \in Publishers : PublishDeliver(t)

SpecBooking == Init /\ [][NextBooking]_vars
SpecNotify == Init /\ [][NextNotify]_vars
SpecReact == Init /\ [][NextReact]_vars
SpecConc == Init /\ [][NextConc]_vars

(* ------------------------------- claims -------------------------------- *)
\* C1 (as claimed): every change of a booking's status follows an edge of
\* the lifecycle; any other requested change leaves the status as it was.
C1_StatusFollowsEdges ==
    [][(booking.constructed /\ booking'.constructed
        /\ booking'.book_status # booking.book_status)
       => <<booking.book_status, booking'.book_status>> \in Edges]_vars

\* C1 (amended): set_book_status rejects nothing: after the call the status
\* is the status passed, whatever the status was before.
C1_SetterStoresAnyStatus ==
    last.op = "set_book_status"
        => ~last.raised /\ get_book_status(booking) = last.arg

C1_TerminalLeft ==
    /\ last.op = "set_book_status"
    /\ last.prev \in Terminal
    /\ last.arg = "Requested"
    /\ booking.book_status = "Requested"

\* C2 (as claimed): the driver id of a booking is null exactly when its
\* status is Requested.
C2_DriverNullIffRequested ==
    booking.constructed
        => (booking.driver_id = None <=> booking.book_status = "Requested")

\* C2 (amended): driver id and status are independent fields: set_driver_id
\* leaves the status as it was and set_book_status leaves the driver id as
\* it was, in every status.
C2_DriverAndStatusIndependent ==
    /\ last.op = "set_driver_id" => booking.book_status = last.other
    /\ last.op = "set_book_status" => booking.driver_id = last.other

C2_DriverWhileRequested ==
    /\ last.op = "set_driver_id"
    /\ last.arg \in Drivers
    /\ booking.driver_id = last.arg
    /\ booking.book_status = "Requested"

\* C3 (as claimed): while the status is Requested, Completed or Cancelled an
\* update of the current coordinate is rejected and changes nothing.
C3_UpdateRejectedWhenInactive ==
    (last.op = "set_current_latlng" /\ booking.constructed
     /\ booking.book_status \notin Active)
        => last.raised /\ get_current_latlng(location) = last.prev

\* C3 (amended): set_current_latlng is accepted in every status: it does
\* not raise, get_current_latlng then returns the new coordinate, the
\* origin is untouched and no call of the notification manager is made.
C3_UpdateAcceptedInEveryStatus ==
    last.op = "set_current_latlng"
        => /\ ~last.raised
           /\ get_current_latlng(location) = last.arg
           /\ location.origin_latlng = last.other
           /\ note = NoNote

C3_UpdatedWhileTerminal ==
    /\ last.op = "set_current_latlng"
    /\ booking.constructed
    /\ booking.book_status \in Terminal
    /\ last.prev # last.arg
    /\ location.current_latlng = last.arg

\* C4: a notify on a manager delivers to no observer that was subscribed
\* only to another manager: a manager on which attach was never called
\* delivers to nobody.
C4_NotifyReachesOnlyOwnSubscribers ==
    (note.op = "notify" /\ note.m \notin attached) => note.delivered = <<>>

\* C5: a notify returns normally and reaches every subscriber whose own
\* update does not fail, whatever the other subscribers' updates do.
C5_PublishIsolatesFailures ==
    note.op = "notify"
        => /\ ~note.raised
           /\ Len(note.delivered) =
                Cardinality({i \in 1..Len(observers) :
                               ~update_call_raises(observers[i])})

\* C6 (as claimed): however often an observer is attached, it has one
\* subscription.
C6_AttachIdempotent ==
    \A o \in Observers : Count(o, observers) <= 1

\* C6 (amended): every attach appends one more entry for the observer, and
\* a notify that no update interrupts delivers to an observer once per
\* entry.
C6_AttachAppendsEveryTime ==
    /\ note.op = "attach"
         => /\ Count(note.o, observers) = Count(note.o, note.before) + 1
            /\ Len(observers) = Len(note.before) + 1
    /\ (note.op = "notify" /\ ~note.raised)
         => \A o \in Observers :
                Count(o, note.delivered) = Count(o, observers)

C6_DeliveredTwice ==
    /\ note.op = "notify"
    /\ ~note.raised
    /\ Count("Interface", note.delivered) = 2

\* C7 (as claimed): detach never raises; it leaves the list unchanged when
\* the observer is not subscribed, and otherwise removes every subscription
\* of the observer.
C7_DetachNeverFailsAndRemovesAll ==
    note.op = "detach"
        => /\ ~note.raised
           /\ Count(note.o, observers) = 0
           /\ (Count(note.o, note.before) = 0 => observers = note.before)

\* C7 (amended): detach of an observer that is not subscribed raises and
\* leaves the list unchanged; detach of a subscribed observer removes one
\* of its entries and keeps the other entries in their order.
C7_DetachRemovesOneOrRaises ==
    note.op = "detach"
        => IF Count(note.o, note.before) = 0
           THEN note.raised /\ observers = note.before
           ELSE /\ ~note.raised
                /\ Count(note.o, observers) = Count(note.o, note.before) - 1
                /\ RemoveAll(observers, note.o) = RemoveAll(note.before, note.o)

C7_StillSubscribedAfterDetach ==
    /\ note.op = "detach"
    /\ ~note.raised
    /\ Count(note.o, observers) >= 1

C9_SecondAssignRejected ==
    (last.op = "set_driver_id" /\ last.prev \in Drivers /\ last.arg \in Drivers)
        => last.raised /\ booking.driver_id = last.prev

\* C9 (amended): every set_driver_id succeeds and the booking then has the
\* driver id of the latest caller: a later assignment overwrites an earlier.
C9_LastAssignWins ==
    last.op = "set_driver_id"
        => ~last.raised /\ get_driver_id(booking) = last.arg

C9_EarlierDriverOverwritten ==
    /\ last.op = "set_driver_id"
    /\ last.prev \in Drivers
    /\ last.arg \in Drivers
    /\ last.prev # last.arg
    /\ booking.driver_id = last.arg

====
